---- MODULE Spec2Model ----
(***************************************************************************)
(* A model of sound.c: an SDL3 sine synthesizer.  main() opens the audio   *)
(* device, then runs a single-threaded control loop: poll key events, top  *)
(* up the audio stream when its queued depth is below 8192 bytes, check    *)
(* for underruns every 60th iteration, render.  The audio device drains    *)
(* the stream concurrently.                                                *)
(*                                                                         *)
(* Numbers.  The C doubles are modelled by exact integers.  Frequencies    *)
(* are held in units of 1/FreqScale Hz and angles in units of              *)
(* 2*pi/(SAMPLE_RATE*FreqScale), so that the per-sample increment          *)
(* 2*pi*frequency/SAMPLE_RATE is an integer.  Floating-point rounding is   *)
(* not modelled.  sin() is modelled by Bhaskara's rational approximation   *)
(* on whole degrees (error below 0.002, |sin| <= 1 kept).                  *)
(***************************************************************************)
EXTENDS Integers, Sequences, FiniteSets

\* ---------------------------------------------------------------- bounds
\* Resolution of the frequency unit (units per Hz).
FreqScale == 4
\* Control-loop iterations explored.  In the last one the environment is
\* idle again.
MaxFrames == 61
\* Leading iterations in which the environment is idle: no event arrives,
\* the device takes nothing and no call fails.
IdleFrames == 58
\* Input events delivered by SDL_PollEvent over the run.
MaxEvents == 3
\* Times the audio device takes data out of the stream over the run.
MaxConsume == 1
\* Runtime failures (malloc returning NULL, a failed stream put) over the run.
MaxFaults == 1
\* Largest sample count of a generation call taken on its own.
MaxCount == 4

\* ------------------------------------------------------ program constants
SAMPLE_RATE == 44100
AMPLITUDE == 28000
FREQUENCY_A4 == 440
\* sizeof(Sint16)
SAMPLE_BYTES == 2
\* "if (queued < 8192)"
LOW_WATER == 8192
\* "generate_audio_samples(2048)"
BATCH == 2048
\* "frame_count % 60 == 0"
VALIDATE_PERIOD == 60

\* 2.0 * M_PI in the model's angle unit.
TWO_PI == SAMPLE_RATE * FreqScale

NoteKeys == {"A", "S", "D", "F"}
Keys == NoteKeys \cup {"ESCAPE", "OTHER"}

\* pow(2, n / 12.0) in units of 1/10000.
Pow2Twelfth(n) ==
  CASE n = 0 -> 10000
    [] n = 1 -> 10595
    [] n = 2 -> 11225
    [] n = 3 -> 11892

\* Faulty variant of Semitone: the offsets of S and D are exchanged.
SemitoneSwapped(k) ==
  CASE k = "A" -> 0
    [] k = "S" -> 2
    [] k = "D" -> 1
    [] k = "F" -> 3

\* The semitone offset each note key selects (the switch's case order).
Semitone(k) ==
  CASE k = "A" -> 0
    [] k = "S" -> 1
    [] k = "D" -> 2
    [] k = "F" -> 3

\* FREQUENCY_A4 * pow(2, n / 12.0), in the model's frequency unit.
NoteFrequency(n) == (FREQUENCY_A4 * FreqScale * Pow2Twelfth(n)) \div 10000

\* The name each case of the switch assigns to note_name.
NoteName(k) ==
  CASE k = "A" -> "A"
    [] k = "S" -> "A#"
    [] k = "D" -> "B"
    [] k = "F" -> "C"

\* ------------------------------------------------------------ oscillator
\* double phase_increment = 2.0 * M_PI * frequency / SAMPLE_RATE;
PhaseIncrement(f) == (TWO_PI * f) \div (SAMPLE_RATE * FreqScale)

\* Faulty variant of StepPhase: the wraparound is left out.
StepPhaseNoWrap(p, inc) == p + inc

\* phase += phase_increment; if (phase >= 2.0 * M_PI) phase -= 2.0 * M_PI;
StepPhase(p, inc) ==
  IF p + inc >= TWO_PI THEN p + inc - TWO_PI ELSE p + inc

\* The angle in whole degrees, 0..359, for the sine approximation; sin has
\* period 2*pi, whatever angle it is given.
Degrees(p) == ((p % TWO_PI) * 360) \div TWO_PI

\* Bhaskara: sin(d deg) ~ 4d(180-d) / (40500 - d(180-d)) on 0..180.
HalfWave(d) == (AMPLITUDE * 4 * d * (180 - d)) \div (40500 - d * (180 - d))

\* AMPLITUDE * sin(phase), truncated toward zero as the C conversion does.
AmplitudeSin(p) ==
  IF Degrees(p) <= 180 THEN HalfWave(Degrees(p))
  ELSE 0 - HalfWave(Degrees(p) - 180)

\* The (Sint16) conversion: the value kept in 16 bits, two's complement.
ToSint16(v) == ((v + 32768) % 65536) - 32768

\* Faulty variant of SampleOn: the sine is scaled to the full 16-bit range.
SampleOnFullScale(p) == ToSint16((AmplitudeSin(p) * 32768) \div AMPLITUDE)

\* buffer[i] = (Sint16)(AMPLITUDE * sin(phase));
SampleOn(p) == ToSint16(AmplitudeSin(p))

\* Faulty variant of LoopBody: phase advances whether or not the gate is on.
LoopBodyAlwaysAdvances(st, on, inc) ==
  [i |-> st.i + 1,
   phase |-> StepPhase(st.phase, inc),
   buffer |-> Append(st.buffer, IF on THEN SampleOn(st.phase) ELSE 0),
   phases |-> Append(st.phases, st.phase)]

\* One iteration of the for loop.  st is the loop's state: i, the global
\* phase, the buffer filled so far, and the phase each sample was computed
\* at (a record of the loop's run, not a program variable).
LoopBody(st, on, inc) ==
  IF on
  THEN [i |-> st.i + 1,
        phase |-> StepPhase(st.phase, inc),
        buffer |-> Append(st.buffer, SampleOn(st.phase)),
        phases |-> Append(st.phases, st.phase)]
  ELSE [i |-> st.i + 1,
        phase |-> st.phase,
        buffer |-> Append(st.buffer, 0),
        phases |-> Append(st.phases, st.phase)]

\* k further iterations of "for (i = 0; i < num_samples; i++)" from st.
\* The iterations run in order; the halving only keeps the evaluation
\* shallow.
RECURSIVE RunLoop(_, _, _, _, _)
RunLoop(st, k, num_samples, on, inc) ==
  IF k = 0 \/ st.i >= num_samples THEN st
  ELSE IF k = 1 THEN LoopBody(st, on, inc)
  ELSE RunLoop(RunLoop(st, k \div 2, num_samples, on, inc),
               k - (k \div 2), num_samples, on, inc)

\* Faulty variant of ForLoop: the loop stops one sample short.
ForLoopShort(p, num_samples, on, f) ==
  RunLoop([i |-> 0, phase |-> p, buffer |-> <<>>, phases |-> <<>>],
          num_samples - 1, num_samples - 1, on, PhaseIncrement(f))

\* Faulty variant of ForLoop: every call restarts the wave at phase 0.
ForLoopFromZero(p, num_samples, on, f) ==
  RunLoop([i |-> 0, phase |-> 0, buffer |-> <<>>, phases |-> <<>>],
          num_samples, num_samples, on, PhaseIncrement(f))

\* The whole for loop of generate_audio_samples, entered with phase p.
ForLoop(p, num_samples, on, f) ==
  RunLoop([i |-> 0, phase |-> p, buffer |-> <<>>, phases |-> <<>>],
          num_samples, num_samples, on, PhaseIncrement(f))

\* What "int result = SDL_PutAudioStreamData(...)" holds.  The file tests
\* SDL_Init, SDL_BindAudioStream and SDL_ResumeAudioDevice with "!", the
\* SDL3 convention in which these calls, SDL_PutAudioStreamData among them,
\* return bool: true (1) on success, false (0) on failure.
PutReturn(ok) == IF ok THEN 1 ELSE 0

\* "if (result < 0)": the branch that reports a failed put.
PutFailed(result) == result < 0

\* ------------------------------------------------------------- underrun
\* Faulty variant of UnderrunSeen: the gate is not looked at.
UnderrunSeenAnyGate(q, on) == q = 0

\* "if (queued == 0 && note_on)" of validate_audio_stream.
UnderrunSeen(q, on) == q = 0 /\ on

\* "if (debug_stats.frame_count % 60 == 0)"
ValidateDue(fc) == fc % VALIDATE_PERIOD = 0

\* Faulty variant of NeedsFill: the depth is not looked at.
NeedsFillAlways(q) == TRUE

\* Faulty variant of NeedsFill: the fill waits until the stream is empty.
NeedsFillWhenEmpty(q) == q = 0

\* Faulty variant of NeedsFill: the comparison is off by one.
NeedsFillAtMark(q) == q <= LOW_WATER

\* "if (queued < 8192)"
NeedsFill(q) == q < LOW_WATER

VARIABLES
  pc,                \* where main() is
  exit_code,         \* main's return value, "none" while it runs
  sdl,               \* SDL_Init succeeded and SDL_Quit has not run
  audio_device,      \* the device is open
  audio_stream,      \* the stream exists
  window,            \* the window exists
  renderer,          \* the renderer exists
  running,           \* main's local
  event,             \* main's local, the event SDL_PollEvent last returned
  note_on,
  phase,
  frequency,
  note_name,
  frame_count,       \* debug_stats.frame_count
  underruns,         \* debug_stats.audio_buffer_underruns
  samples_generated, \* debug_stats.audio_samples_generated
  queued,            \* main's local, the depth read at the top of the fill
  stream_queued,     \* bytes queued in the audio stream (the sink)
  put,               \* the last step's SDL_PutAudioStreamData: "none", "ok", "failed"
  buffer,            \* the samples the last step handed to the put
  phases,            \* the phase each of those samples was computed at
  diag,              \* the diagnostic the last step printed, "none" if none
  num_samples,       \* the argument of the last generate_audio_samples call
  pushed,            \* the batches the stream has accepted, oldest first
  n_events,          \* events delivered so far
  n_consumed,        \* device consumptions so far
  n_faults           \* runtime failures so far

oscillator == <<note_on, phase, frequency, note_name>>
resources == <<sdl, audio_device, audio_stream, window, renderer>>
stats == <<frame_count, underruns, samples_generated>>
emitted == <<put, buffer, phases, diag>>
budgets == <<n_events, n_consumed, n_faults>>
vars == <<pc, exit_code, resources, running, event, oscillator, stats,
          queued, stream_queued, emitted, num_samples, pushed, budgets>>

\* The iterations in which the environment acts.
InputsOpen == IdleFrames < frame_count /\ frame_count < MaxFrames

NoEvent == [type |-> "NONE", key |-> "NONE"]

\* What a step that makes no put and prints nothing leaves behind.
Quiet == put' = "none" /\ buffer' = <<>> /\ phases' = <<>> /\ diag' = "none"
Says(d) == put' = "none" /\ buffer' = <<>> /\ phases' = <<>> /\ diag' = d

\* The globals' initializers and main's entry.
Init ==
  /\ pc = "SDL_Init"
  /\ exit_code = "none"
  /\ sdl = FALSE
  /\ audio_device = FALSE
  /\ audio_stream = FALSE
  /\ window = FALSE
  /\ renderer = FALSE
  /\ running = FALSE
  /\ event = NoEvent
  /\ note_on = FALSE
  /\ phase = 0
  /\ frequency = FREQUENCY_A4 * FreqScale
  /\ note_name = "A"
  /\ frame_count = 0
  /\ underruns = 0
  /\ samples_generated = 0
  /\ queued = 0
  /\ stream_queued = 0
  /\ put = "none"
  /\ buffer = <<>>
  /\ phases = <<>>
  /\ diag = "none"
  /\ num_samples = 0
  /\ pushed = <<>>
  /\ n_events = 0
  /\ n_consumed = 0
  /\ n_faults = 0

\* --------------------------------------------------------- initialisation
\* cleanup(window, renderer): whatever exists is released, then SDL_Quit.
Cleanup ==
  /\ renderer' = FALSE
  /\ window' = FALSE
  /\ audio_stream' = FALSE
  /\ audio_device' = FALSE
  /\ sdl' = FALSE
  /\ stream_queued' = 0

\* "return -1;" after a failed step of the start-up.
Abort ==
  /\ pc' = "exit"
  /\ exit_code' = -1
  /\ Says("init_failed")

\* if (!SDL_Init(SDL_INIT_AUDIO | SDL_INIT_VIDEO)) return -1;
SDLInit ==
  /\ pc = "SDL_Init"
  /\ \E ok \in BOOLEAN :
       IF ok
       THEN /\ sdl' = TRUE
            /\ pc' = "SDL_OpenAudioDevice"
            /\ Quiet
            /\ UNCHANGED exit_code
       ELSE /\ Abort
            /\ UNCHANGED sdl
  /\ UNCHANGED <<audio_device, audio_stream, window, renderer, running, event,
                 oscillator, stats, queued, stream_queued,
                 num_samples, pushed, budgets>>

\* audio_device = SDL_OpenAudioDevice(...); on failure SDL_Quit, return -1.
OpenAudioDevice ==
  /\ pc = "SDL_OpenAudioDevice"
  /\ \E ok \in BOOLEAN :
       IF ok
       THEN /\ audio_device' = TRUE
            /\ pc' = "SDL_CreateAudioStream"
            /\ Quiet
            /\ UNCHANGED <<exit_code, sdl>>
       ELSE /\ Abort
            /\ sdl' = FALSE
            /\ UNCHANGED audio_device
  /\ UNCHANGED <<audio_stream, window, renderer, running, event,
                 oscillator, stats, queued, stream_queued,
                 num_samples, pushed, budgets>>

\* audio_stream = SDL_CreateAudioStream(...); on failure the device is
\* closed, SDL_Quit, return -1.
CreateAudioStream ==
  /\ pc = "SDL_CreateAudioStream"
  /\ \E ok \in BOOLEAN :
       IF ok
       THEN /\ audio_stream' = TRUE
            /\ pc' = "SDL_BindAudioStream"
            /\ Quiet
            /\ UNCHANGED <<exit_code, sdl, audio_device>>
       ELSE /\ Abort
            /\ audio_device' = FALSE
            /\ sdl' = FALSE
            /\ UNCHANGED audio_stream
  /\ UNCHANGED <<window, renderer, running, event,
                 oscillator, stats, queued, stream_queued,
                 num_samples, pushed, budgets>>

\* if (!SDL_BindAudioStream(...)): the device is closed, SDL_Quit,
\* return -1; the stream is left as it is.
BindAudioStream ==
  /\ pc = "SDL_BindAudioStream"
  /\ \E ok \in BOOLEAN :
       IF ok
       THEN /\ pc' = "SDL_ResumeAudioDevice"
            /\ Quiet
            /\ UNCHANGED <<exit_code, sdl, audio_device>>
       ELSE /\ Abort
            /\ audio_device' = FALSE
            /\ sdl' = FALSE
  /\ UNCHANGED <<audio_stream, window, renderer, running, event,
                 oscillator, stats, queued, stream_queued,
                 num_samples, pushed, budgets>>

\* if (!SDL_ResumeAudioDevice(audio_device)) DEBUG_ERROR(...); and on.
ResumeAudioDevice ==
  /\ pc = "SDL_ResumeAudioDevice"
  /\ \E ok \in BOOLEAN :
       IF ok THEN Quiet ELSE Says("resume_failed")
  /\ pc' = "validate_audio_stream"
  /\ UNCHANGED <<exit_code, resources, running, event,
                 oscillator, stats, queued, stream_queued,
                 num_samples, pushed, budgets>>

\* validate_audio_stream(): the underrun counter after the call.
ValidatedUnderruns(stream, q, on, u) ==
  IF ~stream THEN u
  ELSE IF UnderrunSeen(q, on) THEN u + 1 ELSE u

\* validate_audio_stream(): what it prints.
ValidateDiag(stream, q, on) ==
  IF ~stream THEN "stream_null"
  ELSE IF UnderrunSeen(q, on) THEN "underrun" ELSE "none"

\* validate_audio_stream(), reading the stream's depth as it is now.
ValidateAudioStream ==
  /\ underruns' = ValidatedUnderruns(audio_stream, stream_queued, note_on, underruns)
  /\ Says(ValidateDiag(audio_stream, stream_queued, note_on))

\* "Initial audio stream validation", before the window is created.
InitialValidate ==
  /\ pc = "validate_audio_stream"
  /\ ValidateAudioStream
  /\ pc' = "SDL_CreateWindow"
  /\ UNCHANGED <<exit_code, resources, running, event, oscillator,
                 frame_count, samples_generated, queued, stream_queued,
                 num_samples, pushed, budgets>>

\* window = SDL_CreateWindow(...); on failure cleanup(window, NULL), -1.
CreateWindow ==
  /\ pc = "SDL_CreateWindow"
  /\ \E ok \in BOOLEAN :
       IF ok
       THEN /\ window' = TRUE
            /\ pc' = "SDL_CreateRenderer"
            /\ Quiet
            /\ UNCHANGED <<exit_code, sdl, audio_device, audio_stream,
                           renderer, stream_queued>>
       ELSE /\ Abort
            /\ Cleanup
  /\ UNCHANGED <<running, event, oscillator, stats, queued,
                 num_samples, pushed, budgets>>

\* renderer = SDL_CreateRenderer(...); on failure cleanup(window, renderer),
\* -1; on success "bool running = true" and the loop is entered.
CreateRenderer ==
  /\ pc = "SDL_CreateRenderer"
  /\ \E ok \in BOOLEAN :
       IF ok
       THEN /\ renderer' = TRUE
            /\ running' = TRUE
            /\ pc' = "while"
            /\ Quiet
            /\ UNCHANGED <<exit_code, sdl, audio_device, audio_stream,
                           window, stream_queued>>
       ELSE /\ Abort
            /\ Cleanup
            /\ UNCHANGED running
  /\ UNCHANGED <<event, oscillator, stats, queued,
                 num_samples, pushed, budgets>>

\* ------------------------------------------------------------ key events
\* The switch on event.key.key: what a key-down leaves in each global.
KeyDownFrequency(k, f) ==
  IF k \in NoteKeys THEN NoteFrequency(Semitone(k)) ELSE f

KeyDownName(k, name) ==
  IF k \in NoteKeys THEN NoteName(k) ELSE name

KeyDownGate(k, on) ==
  IF k \in NoteKeys THEN TRUE ELSE on

\* Faulty variant of KeyDownRunning: any key-down ends the loop.
KeyDownRunningAnyKey(k, r) == FALSE

\* "case SDLK_ESCAPE: running = false;"; no other case touches running.
KeyDownRunning(k, r) ==
  IF k = "ESCAPE" THEN FALSE ELSE r

\* Faulty variant of KeyUpGate: the key-up leaves the gate as it is.
KeyUpGateKeeps(on) == on

\* "note_on = false;" of the key-up branch.
KeyUpGate(on) == FALSE

\* SDL_PollEvent returned an event: one more of the run's events.
Delivered(type, key) ==
  /\ pc = "poll"
  /\ InputsOpen
  /\ n_events < MaxEvents
  /\ n_events' = n_events + 1
  /\ event' = [type |-> type, key |-> key]
  /\ pc' = "poll"
  /\ Quiet
  /\ UNCHANGED <<exit_code, resources, stats, queued, stream_queued,
                 num_samples, pushed, n_consumed, n_faults>>

\* event.type == SDL_EVENT_QUIT
PollQuit ==
  /\ Delivered("QUIT", "NONE")
  /\ running' = FALSE
  /\ UNCHANGED oscillator

\* event.type == SDL_EVENT_KEY_DOWN
PollKeyDown(k) ==
  /\ Delivered("KEY_DOWN", k)
  /\ frequency' = KeyDownFrequency(k, frequency)
  /\ note_name' = KeyDownName(k, note_name)
  /\ note_on' = KeyDownGate(k, note_on)
  /\ running' = KeyDownRunning(k, running)
  /\ UNCHANGED phase

\* Faulty variant of PollKeyUp: the note-off also rewinds the oscillator.
PollKeyUpResetsPhase(k) ==
  /\ Delivered("KEY_UP", k)
  /\ note_on' = KeyUpGate(note_on)
  /\ phase' = 0
  /\ UNCHANGED <<frequency, note_name, running>>

\* event.type == SDL_EVENT_KEY_UP
PollKeyUp(k) ==
  /\ Delivered("KEY_UP", k)
  /\ note_on' = KeyUpGate(note_on)
  /\ UNCHANGED <<phase, frequency, note_name, running>>

\* An event of any other type falls through the if chain.
PollOther ==
  /\ Delivered("OTHER", "NONE")
  /\ UNCHANGED <<oscillator, running>>

\* SDL_PollEvent returned false: the inner while ends.  The event is not
\* read again before the next poll overwrites it.
PollEmpty ==
  /\ pc = "poll"
  /\ pc' = "SDL_GetAudioStreamQueued"
  /\ event' = NoEvent
  /\ Quiet
  /\ UNCHANGED <<exit_code, resources, running, oscillator, stats,
                 queued, stream_queued, num_samples, pushed, budgets>>

\* ------------------------------------------------------------ control loop
\* "while (running)" holds: debug_stats.frame_count++ and the event loop.
LoopEnter ==
  /\ pc = "while"
  /\ running
  /\ frame_count < MaxFrames
  /\ frame_count' = frame_count + 1
  /\ pc' = "poll"
  /\ Quiet
  /\ UNCHANGED <<exit_code, resources, running, event, oscillator,
                 underruns, samples_generated, queued, stream_queued,
                 num_samples, pushed, budgets>>

\* "while (running)" fails: cleanup(window, renderer); return 0;
LoopExit ==
  /\ pc = "while"
  /\ ~running
  /\ Cleanup
  /\ pc' = "exit"
  /\ exit_code' = 0
  /\ Quiet
  /\ UNCHANGED <<running, event, oscillator, stats, queued,
                 num_samples, pushed, budgets>>

\* int queued = SDL_GetAudioStreamQueued(audio_stream);
ReadQueued ==
  /\ pc = "SDL_GetAudioStreamQueued"
  /\ queued' = stream_queued
  /\ pc' = "fill"
  /\ Quiet
  /\ UNCHANGED <<exit_code, resources, running, event, oscillator, stats,
                 stream_queued, num_samples, pushed, budgets>>

\* What the stream holds of a batch it accepted: the gate and frequency
\* the batch was generated with, its length, and the phase of its first
\* and of its last sample (p is the phase the loop was entered with).
Batch(p, run, on, f) ==
  [on |-> on,
   frequency |-> f,
   count |-> Len(run.buffer),
   first |-> p,
   last |-> IF Len(run.phases) > 0 THEN run.phases[Len(run.phases)] ELSE p]

\* Faulty variant of Accepted: the stream keeps only the newest batch.
AcceptedReplaces(log, ok, batch) == IF ok THEN <<batch>> ELSE log

\* SDL_PutAudioStreamData: an accepted batch is added behind what the
\* stream already holds; a refused one leaves the stream as it was.
Accepted(log, ok, batch) == IF ok THEN Append(log, batch) ELSE log

\* generate_audio_samples(count).  outcome is what the environment
\* does: "alloc_failed" (malloc returns NULL), "put_failed" (the stream
\* refuses the data) or "ok".
GenerateAudioSamples(count, outcome) ==
  IF outcome = "alloc_failed"
  THEN /\ Says("alloc_failed")
       /\ UNCHANGED <<phase, samples_generated, stream_queued, pushed>>
  ELSE \E run \in {ForLoop(phase, count, note_on, frequency)} :
       LET result == PutReturn(outcome = "ok")
       IN /\ phase' = run.phase
          /\ buffer' = run.buffer
          /\ phases' = run.phases
          /\ put' = IF outcome = "ok" THEN "ok" ELSE "failed"
          /\ pushed' = Accepted(pushed, outcome = "ok",
                                Batch(phase, run, note_on, frequency))
          /\ stream_queued' = IF outcome = "ok"
                              THEN stream_queued + Len(run.buffer) * SAMPLE_BYTES
                              ELSE stream_queued
          /\ IF PutFailed(result)
             THEN /\ diag' = "queue_failed"
                  /\ UNCHANGED samples_generated
             ELSE /\ diag' = "none"
                  /\ samples_generated' = samples_generated + count

\* "if (queued < 8192)" holds: generate_audio_samples(2048).
FillGenerate(outcome) ==
  /\ pc = "fill"
  /\ NeedsFill(queued)
  /\ IF outcome = "ok"
     THEN UNCHANGED n_faults
     ELSE /\ InputsOpen
          /\ n_faults < MaxFaults
          /\ n_faults' = n_faults + 1
  /\ num_samples' = BATCH
  /\ GenerateAudioSamples(BATCH, outcome)
  /\ pc' = "validate"
  /\ UNCHANGED <<exit_code, resources, running, event, note_on, frequency,
                 note_name, frame_count, underruns, queued, n_events, n_consumed>>

\* "if (queued < 8192)" fails: nothing is generated.
FillSkip ==
  /\ pc = "fill"
  /\ ~NeedsFill(queued)
  /\ pc' = "validate"
  /\ Quiet
  /\ UNCHANGED <<exit_code, resources, running, event, oscillator, stats,
                 queued, stream_queued, num_samples, pushed, budgets>>

\* Faulty variant of ValidatePeriodic: a detected underrun stops the note.
ValidatePeriodicMutes ==
  /\ pc = "validate"
  /\ ValidateDue(frame_count)
  /\ ValidateAudioStream
  /\ note_on' = (note_on /\ ~UnderrunSeen(stream_queued, note_on))
  /\ pc' = "render"
  /\ UNCHANGED <<exit_code, resources, running, event, phase, frequency,
                 note_name, frame_count, samples_generated, queued,
                 stream_queued, num_samples, pushed, budgets>>

\* "if (debug_stats.frame_count % 60 == 0)" holds: validate_audio_stream().
ValidatePeriodic ==
  /\ pc = "validate"
  /\ ValidateDue(frame_count)
  /\ ValidateAudioStream
  /\ pc' = "render"
  /\ UNCHANGED <<exit_code, resources, running, event, oscillator,
                 frame_count, samples_generated, queued, stream_queued,
                 num_samples, pushed, budgets>>

\* Any other iteration: no check.
ValidateSkip ==
  /\ pc = "validate"
  /\ ~ValidateDue(frame_count)
  /\ pc' = "render"
  /\ Quiet
  /\ UNCHANGED <<exit_code, resources, running, event, oscillator, stats,
                 queued, stream_queued, num_samples, pushed, budgets>>

\* The rendering, and the end of the iteration.
Render ==
  /\ pc = "render"
  /\ pc' = "while"
  /\ Quiet
  /\ UNCHANGED <<exit_code, resources, running, event, oscillator, stats,
                 queued, stream_queued, num_samples, pushed, budgets>>

\* ------------------------------------------------------------------- sink
\* The amounts the device may take at once: one sample, or all that is
\* queued.
ConsumeChoices(q) == {n \in {SAMPLE_BYTES, q} : n <= q}

\* The audio device takes n bytes out of the stream, at any moment.
SinkConsume(n) ==
  /\ audio_stream
  /\ stream_queued > 0
  /\ n \in ConsumeChoices(stream_queued)
  /\ InputsOpen
  /\ n_consumed < MaxConsume
  /\ n_consumed' = n_consumed + 1
  /\ stream_queued' = stream_queued - n
  /\ UNCHANGED <<pc, exit_code, resources, running, event, oscillator, stats,
                 queued, emitted, num_samples, pushed, n_events, n_faults>>

Next ==
  \/ SDLInit
  \/ OpenAudioDevice
  \/ CreateAudioStream
  \/ BindAudioStream
  \/ ResumeAudioDevice
  \/ InitialValidate
  \/ CreateWindow
  \/ CreateRenderer
  \/ LoopEnter
  \/ LoopExit
  \/ PollQuit
  \/ \E k \in Keys : PollKeyDown(k)
  \/ \E k \in Keys : PollKeyUp(k)
  \/ PollOther
  \/ PollEmpty
  \/ ReadQueued
  \/ \E outcome \in {"ok", "put_failed", "alloc_failed"} : FillGenerate(outcome)
  \/ FillSkip
  \/ ValidatePeriodic
  \/ ValidateSkip
  \/ Render
  \/ \E n \in ConsumeChoices(stream_queued) : SinkConsume(n)

Spec == Init /\ [][Next]_vars

\* ------------------------------------------- one generation call alone
\* Phases a call may find: the start of the wave, its middle, and the last
\* angle before the wraparound.
CallPhases == {0, TWO_PI \div 2, TWO_PI - 1}

\* generate_audio_samples about to be called with any count from 0 up, the
\* oscillator as some note key and key-ups may have left it, the stream
\* empty.
GenInit ==
  /\ pc = "generate_audio_samples"
  /\ num_samples \in 0..MaxCount
  /\ note_on \in BOOLEAN
  /\ phase \in CallPhases
  /\ \E k \in NoteKeys :
       /\ frequency = NoteFrequency(Semitone(k))
       /\ note_name = NoteName(k)
  /\ exit_code = "none"
  /\ sdl = TRUE
  /\ audio_device = TRUE
  /\ audio_stream = TRUE
  /\ window = TRUE
  /\ renderer = TRUE
  /\ running = TRUE
  /\ event = NoEvent
  /\ frame_count = 1
  /\ underruns = 0
  /\ samples_generated = 0
  /\ queued = 0
  /\ stream_queued = 0
  /\ put = "none"
  /\ buffer = <<>>
  /\ phases = <<>>
  /\ diag = "none"
  /\ pushed = <<>>
  /\ n_events = 0
  /\ n_consumed = 0
  /\ n_faults = 0

\* The call, from entry to return.
GenerateCall(outcome) ==
  /\ pc = "generate_audio_samples"
  /\ GenerateAudioSamples(num_samples, outcome)
  /\ pc' = "return"
  /\ UNCHANGED <<exit_code, resources, running, event, note_on, frequency,
                 note_name, frame_count, underruns, queued, num_samples,
                 budgets>>

GenNext ==
  \E outcome \in {"ok", "put_failed", "alloc_failed"} : GenerateCall(outcome)

GenSpec == GenInit /\ [][GenNext]_vars

\* ----------------------------------------------------------------- steps
\* The step that runs "if (queued < 8192) generate_audio_samples(2048);".
FillStep == pc = "fill" /\ pc' = "validate"

\* A step in which generate_audio_samples ran its for loop.
Generated == FillStep /\ Len(phases') > 0

\* The step at "if (frame_count % 60 == 0) validate_audio_stream();".
ValidateStep == pc = "validate" /\ pc' = "render"

\* A step in which validate_audio_stream() ran.
CheckStep ==
  \/ ValidateStep /\ ValidateDue(frame_count)
  \/ pc = "validate_audio_stream" /\ pc' = "SDL_CreateWindow"

\* A step in which SDL_PollEvent returned an event.
EventStep == n_events' = n_events + 1
KeyDownStep == EventStep /\ event'.type = "KEY_DOWN"
KeyUpStep == EventStep /\ event'.type = "KEY_UP"
NoteDownStep == KeyDownStep /\ event'.key \in NoteKeys

\* ------------------------------------------------------------------ claims
\* C1: the oscillator phase always lies in [0, 2*pi): the global phase in
\* every state, and the phase after each sample of every generated batch
\* (the phase each next sample is computed at).
C1_PhaseInRange ==
  /\ 0 <= phase /\ phase < TWO_PI
  /\ \A i \in 1..Len(phases) : 0 <= phases[i] /\ phases[i] < TWO_PI

\* C1 witness: a full batch generated with the gate on at the highest note
\* of the table, in which the phase wrapped around.
C1_Witness ==
  /\ Len(phases) = BATCH
  /\ note_on
  /\ frequency = NoteFrequency(3)
  /\ \E i \in 1..(BATCH - 1) : phases[i + 1] < phases[i]

\* C2: phase is changed only by a step that generates samples; key-down and
\* key-up steps, the underrun check, rendering and a fill that generates
\* nothing leave it as it is.
C2_PhaseOnlyByGeneration ==
  [][/\ (phase' # phase => Generated)
     /\ (KeyDownStep \/ KeyUpStep \/ ValidateStep => phase' = phase)]_vars

\* C2 witness: a note key-down arrives, after an earlier note and at least
\* one other event, with the phase an earlier batch left still in place.
C2_Witness ==
  /\ pc = "poll"
  /\ event.type = "KEY_DOWN"
  /\ event.key \in NoteKeys
  /\ n_events >= 3
  /\ note_on
  /\ phase # 0

\* C3: a generation while the gate is off fills its whole batch with zeros
\* and leaves phase as it was.
C3_SilentBatchFreezesPhase ==
  [][FillStep /\ NeedsFill(queued) /\ ~note_on =>
       /\ phase' = phase
       /\ diag' # "alloc_failed" => Len(buffer') = BATCH
       /\ \A i \in 1..Len(buffer') : buffer'[i] = 0]_vars

\* C3 witness: a silent batch generated while phase is not 0.
C3_Witness ==
  /\ pc = "validate"
  /\ ~note_on
  /\ Len(buffer) = BATCH
  /\ phase # 0

\* C4: with the gate on, the first sample of a call is computed at the phase
\* the previous call left, each further sample one increment later (mod
\* 2*pi), and the call leaves phase one increment past its last sample;
\* between calls phase does not move.
C4_PhaseContinuous ==
  [][/\ Generated /\ note_on =>
          /\ Len(phases') = BATCH
          /\ phases'[1] = phase
          /\ \A i \in 1..(BATCH - 1) :
               phases'[i + 1] = (phases'[i] + PhaseIncrement(frequency)) % TWO_PI
          /\ phase' = (phases'[BATCH] + PhaseIncrement(frequency)) % TWO_PI
     /\ ~Generated => phase' = phase]_vars

\* C4 witness: a batch generated with the gate on that starts at a phase an
\* earlier gated-on batch left.
C4_Witness ==
  /\ pc = "validate"
  /\ note_on
  /\ Len(phases) = BATCH
  /\ phases[1] # 0

\* C5: one note at most.  A note key-down turns the gate on with that key's
\* frequency and name; nothing else changes the frequency or the name or
\* turns the gate on; every key-up, for whichever key, turns the gate off.
C5_LastKeyDownWins ==
  /\ [](note_on => \E k \in NoteKeys :
                     /\ frequency = NoteFrequency(Semitone(k))
                     /\ note_name = NoteName(k))
  /\ [][/\ NoteDownStep =>
             /\ note_on'
             /\ frequency' = NoteFrequency(Semitone(event'.key))
             /\ note_name' = NoteName(event'.key)
        /\ ~NoteDownStep =>
             /\ frequency' = frequency
             /\ note_name' = note_name
             /\ note_on' => note_on
        /\ KeyUpStep => ~note_on']_vars

\* C5 witness: the note started by S (after another event) is silenced by
\* the key-up of D.
C5_Witness ==
  /\ event = [type |-> "KEY_UP", key |-> "D"]
  /\ n_events >= 3
  /\ note_name = "A#"
  /\ frequency = NoteFrequency(1)
  /\ ~note_on

\* What a fill step does when malloc returns NULL: the error is printed,
\* nothing is generated or put, and phase and the counter stay.
AllocFailedOnly ==
  /\ diag' = "alloc_failed"
  /\ put' = "none"
  /\ Len(buffer') = 0
  /\ phase' = phase
  /\ stream_queued' = stream_queued
  /\ samples_generated' = samples_generated

\* A fill step that generated a whole batch and handed it to the stream.
BatchPut == Len(buffer') = BATCH /\ put' # "none"

\* The put's outcome as the program records it: the counter goes up by a
\* batch (success) or the failure is printed, one or the other.
OutcomeRecorded ==
  (samples_generated' = samples_generated + BATCH) # (diag' = "queue_failed")

NothingDone ==
  /\ Len(buffer') = 0
  /\ put' = "none"
  /\ stream_queued' = stream_queued
  /\ phase' = phase
  /\ samples_generated' = samples_generated

\* C7 as claimed: a fill that read a depth at or above 8192 does nothing; a
\* fill that read less generates one batch of 2048 samples and puts it, on
\* every such tick.
C7_AsClaimed ==
  [][FillStep => IF queued >= LOW_WATER THEN NothingDone ELSE BatchPut]_vars

\* C7 amended: a fill that read a depth at or above 8192 does nothing; a
\* fill that read less generates one batch of 2048 samples and puts it, on
\* every such tick, unless the buffer allocation fails, which is reported
\* and leaves everything as it was.
C7_LevelTriggered ==
  [][FillStep => IF queued >= LOW_WATER THEN NothingDone
                 ELSE BatchPut \/ (AllocFailedOnly /\ NothingDone)]_vars

\* C7 witness: the fills of two consecutive iterations (59 and 60 here, the
\* only ones in which the device has taken data) have both generated.
C7_Witness ==
  /\ pc = "validate"
  /\ queued < LOW_WATER
  /\ Len(buffer) = BATCH
  /\ frame_count = IdleFrames + 2
  /\ samples_generated = 4 * BATCH

\* C8 as claimed: when the put fails the batch is dropped, the stream's
\* depth and the samples-generated counter stay, and the failure is
\* reported; a fill that reads a depth below the mark generates and puts
\* (again), whatever happened the tick before.
C8_AsClaimed ==
  [][/\ FillStep /\ put' = "failed" =>
          /\ stream_queued' = stream_queued
          /\ samples_generated' = samples_generated
          /\ diag' = "queue_failed"
     /\ FillStep /\ NeedsFill(queued) /\ diag' # "alloc_failed" => BatchPut]_vars

\* C9: the underrun counter never goes down; it goes up by one in each step
\* in which validate_audio_stream() sees depth 0 with the gate on, and no
\* other step changes it.
C9_UnderrunCounter ==
  [][underruns' = underruns +
       (IF CheckStep /\ stream_queued = 0 /\ note_on THEN 1 ELSE 0)]_vars

\* C9 witness: one underrun counted and reported.
C9_Witness ==
  /\ underruns = 1
  /\ diag = "underrun"
  /\ note_on

\* C10: the underrun check, on the iterations it runs and on the others,
\* leaves the oscillator, the depth read and the stream alone and puts
\* nothing; and whether a fill generates is decided by the depth it read
\* alone.
C10_CheckIsDiagnosticOnly ==
  [][/\ ValidateStep \/ CheckStep =>
          /\ UNCHANGED <<note_on, phase, frequency, note_name>>
          /\ UNCHANGED <<queued, stream_queued, samples_generated, running>>
          /\ put' = "none"
          /\ buffer' = <<>>
     /\ FillStep => ((put' # "none" \/ diag' = "alloc_failed") <=> queued < LOW_WATER)]_vars

\* C10 witness: the check of an iteration whose fill read a depth below the
\* mark found an underrun, and the note is still on.
C10_Witness ==
  /\ pc = "render"
  /\ diag = "underrun"
  /\ queued < LOW_WATER
  /\ note_on

\* A step of the start-up whose call failed: every such step prints an
\* error ("return -1" follows, or, after SDL_ResumeAudioDevice, nothing).
InitStepFailed == diag' \in {"init_failed", "resume_failed"}

\* C11 as claimed: every start-up step that fails, the resuming of the
\* device among them, ends the process with exit code -1 at once, before the
\* control loop; and exit code 0 is returned only from the loop's end, after
\* running was set to false.
C11_AsClaimed ==
  [][/\ InitStepFailed => pc' = "exit" /\ exit_code' = -1
     /\ pc # "exit" /\ pc' = "exit" /\ exit_code' = 0 =>
          pc = "while" /\ ~running]_vars

\* C12 as claimed: when the process has exited with -1, nothing acquired is
\* still held: not the SDL subsystem, the audio device, the audio stream,
\* the window or the renderer.
C12_AsClaimed ==
  pc = "exit" /\ exit_code = -1 =>
    ~sdl /\ ~audio_device /\ ~audio_stream /\ ~window /\ ~renderer

\* Where main() is while it is inside "while (running) { ... }" or at its
\* test.
LoopPcs == {"while", "poll", "SDL_GetAudioStreamQueued", "fill", "validate",
            "render"}

\* A step that processes a quit event or the key-down of Escape.
QuitStep ==
  /\ EventStep
  /\ \/ event'.type = "QUIT"
     \/ event'.type = "KEY_DOWN" /\ event'.key = "ESCAPE"

\* C13: a quit event or an Escape key-down, and nothing else, sets running
\* to false; from then on no iteration is started and running stays false;
\* the rest of the iteration runs up to the loop test, which alone leaves
\* the loop: there cleanup releases the renderer, the window, the stream and
\* the device, all held until then and released by no other step of the
\* loop, and 0 is returned.
C13_QuitEndsLoop ==
  [][/\ QuitStep => ~running'
     /\ pc \in LoopPcs /\ running /\ ~running' => QuitStep
     /\ pc \in LoopPcs /\ ~running =>
          /\ ~running'
          /\ frame_count' = frame_count
     /\ pc \in LoopPcs /\ pc' = "while" /\ pc # "while" => pc = "render"
     /\ pc \in LoopPcs /\ pc' = "exit" =>
          /\ pc = "while" /\ ~running
          /\ exit_code' = 0
          /\ renderer /\ window /\ audio_stream /\ audio_device
          /\ ~renderer' /\ ~window' /\ ~audio_stream' /\ ~audio_device'
     /\ pc \in LoopPcs /\ pc' # "exit" =>
          UNCHANGED <<renderer, window, audio_stream, audio_device>>]_vars

\* C13 witness: the process has returned 0 after events arrived in the
\* first iteration in which any could, with nothing left held.
C13_Witness ==
  /\ pc = "exit"
  /\ exit_code = 0
  /\ n_events > 0
  /\ frame_count = IdleFrames + 1
  /\ ~renderer /\ ~window /\ ~audio_stream /\ ~audio_device

\* The newest batch the stream accepted.
LastPushed == pushed[Len(pushed)]

\* C14: events are processed only in the event loop, which ends when no
\* event is pending, before the depth is read and the fill runs; an event
\* step generates and puts nothing and leaves phase and the stream alone.
\* The fill leaves gate and frequency as the events left them and uses them
\* for every sample of its batch: each sample is the sine at its phase (or
\* 0 with the gate off) and each phase is one increment of that frequency
\* past the one before (or the same, gate off).  What the stream has
\* accepted only ever gets a batch added behind it by a successful put.
C14_NoteChangeNextSample ==
  [][/\ EventStep =>
          /\ pc = "poll" /\ pc' = "poll"
          /\ put' = "none"
          /\ UNCHANGED <<phase, stream_queued, pushed>>
     /\ pc' = "SDL_GetAudioStreamQueued" /\ pc # pc' =>
          pc = "poll" /\ ~EventStep
     /\ pc' = "fill" /\ pc # pc' => pc = "SDL_GetAudioStreamQueued"
     /\ Generated =>
          /\ UNCHANGED <<note_on, frequency>>
          /\ Len(buffer') = Len(phases')
          /\ \A i \in 1..Len(buffer') :
               buffer'[i] = IF note_on THEN SampleOn(phases'[i]) ELSE 0
          /\ \A i \in 1..(Len(phases') - 1) :
               phases'[i + 1] =
                 IF note_on
                 THEN StepPhase(phases'[i], PhaseIncrement(frequency))
                 ELSE phases'[i]
     /\ \/ pushed' = pushed
        \/ /\ FillStep /\ put' = "ok"
           /\ Len(pushed') = Len(pushed) + 1
           /\ SubSeq(pushed', 1, Len(pushed)) = pushed
           /\ pushed'[Len(pushed')].on = note_on
           /\ pushed'[Len(pushed')].frequency = frequency
           /\ pushed'[Len(pushed')].first = phase]_vars

\* C14 witness: a batch of one note was accepted behind a batch of another
\* note, both with the gate on.
C14_Witness ==
  /\ pc = "validate"
  /\ put = "ok"
  /\ Len(pushed) >= 2
  /\ LastPushed.on
  /\ pushed[Len(pushed) - 1].on
  /\ LastPushed.frequency # pushed[Len(pushed) - 1].frequency

\* A step in which generate_audio_samples was called, with num_samples' as
\* its argument.
Called ==
  \/ pc = "generate_audio_samples" /\ pc' = "return"
  \/ FillStep /\ queued < LOW_WATER

\* The call got as far as the put and handed it num_samples' samples,
\* which the stream, if it accepted them, holds as twice as many bytes.
ExactlyCountPut ==
  /\ put' # "none"
  /\ Len(buffer') = num_samples'
  /\ put' = "ok" =>
       stream_queued' = stream_queued + SAMPLE_BYTES * num_samples'

\* C15 as claimed: every call hands exactly count samples to the put, and a
\* call with count 0 an empty sequence, with no error printed.
C15_AsClaimed ==
  [][Called => /\ ExactlyCountPut
               /\ num_samples' = 0 => buffer' = <<>> /\ diag' = "none"]_vars

\* C15 amended: every call whose buffer allocation succeeds hands exactly
\* count samples to the put, with count 0 an empty sequence; a call whose
\* allocation fails, whatever the count, prints the failure and puts
\* nothing.
C15_ExactCount ==
  [][Called => \/ ExactlyCountPut
               \/ AllocFailedOnly]_vars

\* C15 witness: a call with count 0 has put an empty sequence, accepted by
\* the stream, and printed nothing.
C15_Witness ==
  /\ pc = "return"
  /\ num_samples = 0
  /\ put = "ok"
  /\ buffer = <<>>
  /\ stream_queued = 0
  /\ diag = "none"

\* The trigger keys in the order of their offsets 0, 1, 2, 3, and the name
\* shown for each.
TriggerKeys == <<"A", "S", "D", "F">>
TriggerNames == <<"A", "A#", "B", "C">>

\* C16: the key-down of the n-th trigger key (n = 0..3 for A, S, D, F) sets
\* the frequency to 440 * 2^(n/12), the name to that entry's and the gate
\* on; the key-down of any other key leaves frequency, name and gate.
C16_TriggerKeys ==
  [][KeyDownStep =>
       /\ \A n \in 0..3 :
            event'.key = TriggerKeys[n + 1] =>
              /\ frequency' =
                   (FREQUENCY_A4 * FreqScale * Pow2Twelfth(n)) \div 10000
              /\ note_name' = TriggerNames[n + 1]
              /\ note_on'
       /\ (\A n \in 1..4 : event'.key # TriggerKeys[n]) =>
            UNCHANGED <<frequency, note_name, note_on>>]_vars

\* C16 witness: the key-down of F, after another note's, has set the
\* frequency three semitones above 440 Hz and the name C.
C16_Witness ==
  /\ event = [type |-> "KEY_DOWN", key |-> "F"]
  /\ n_events >= 2
  /\ frequency = (FREQUENCY_A4 * FreqScale * 11892) \div 10000
  /\ note_name = "C"
  /\ note_on
  /\ phase # 0

\* C17: every sample of a generated batch lies in the signed 16-bit range
\* and within -28000..28000; with the gate on it is the value computed,
\* which the conversion to 16 bits left as it was; with the gate off it is 0.
C17_SampleRange ==
  \A i \in 1..Len(buffer) :
    /\ -32768 <= buffer[i] /\ buffer[i] <= 32767
    /\ -AMPLITUDE <= buffer[i] /\ buffer[i] <= AMPLITUDE
    /\ note_on => buffer[i] = AmplitudeSin(phases[i])
    /\ ~note_on => buffer[i] = 0

\* C17 witness: a batch generated with the gate on whose samples come
\* within a hundredth of the ceiling on both sides.
C17_Witness ==
  /\ note_on
  /\ Len(buffer) = BATCH
  /\ \E i \in 1..BATCH : buffer[i] * 100 >= AMPLITUDE * 99
  /\ \E i \in 1..BATCH : buffer[i] * 100 <= 0 - AMPLITUDE * 99

\* C18: the stream never holds more than 8191 + 4096 = 12287 bytes,
\* whenever the device takes its data; its depth goes up only in a fill that
\* read a depth below 8192, and then by one batch of 2048 samples, and a
\* fill adds at most one batch.
C18_NeverOverfills ==
  /\ [](stream_queued <= 12287)
  /\ [][/\ stream_queued' > stream_queued =>
             /\ FillStep
             /\ queued < LOW_WATER
             /\ stream_queued' = stream_queued + BATCH * SAMPLE_BYTES
        /\ Len(pushed') <= Len(pushed) + 1]_vars

\* C18 witness: a fill read a depth one sample below the mark and its batch
\* was accepted: the stream holds 12286 bytes.
C18_Witness ==
  /\ pc = "validate"
  /\ put = "ok"
  /\ queued = LOW_WATER - SAMPLE_BYTES
  /\ stream_queued = 12286

\* C19 as claimed: of any two batches the stream accepted one right after
\* the other, both generated with the gate on, the later starts one
\* increment (mod 2*pi) past the last sample of the earlier, whatever
\* happened in the ticks between them.
C19_AsClaimed ==
  \A i \in 1..(Len(pushed) - 1) :
    pushed[i].on /\ pushed[i + 1].on =>
      pushed[i + 1].first =
        StepPhase(pushed[i].last, PhaseIncrement(pushed[i].frequency))

====
